---- MODULE Spec2Model ----
(***************************************************************************)
(* habit-tracker: the Habit data model of src/src/lib.rs (per-day i32      *)
(* progress, checklist bit flags, display and plot data) and the command   *)
(* dispatcher of src/src/main.rs (load data.json, run one command, write   *)
(* data.json back on success).                                             *)
(*                                                                         *)
(* One behaviour is a series of invocations of the program, with the wall  *)
(* clock advancing between them.  Time is counted in whole hours of local  *)
(* time since a midnight; a calendar date is the number of days since that *)
(* midnight.  One invocation reads the clock at a single instant.          *)
(* i32 values are kept as integers in MinI32..MaxI32; every operation is   *)
(* written so that no intermediate value leaves that range.                *)
(***************************************************************************)
EXTENDS Integers, Sequences, FiniteSets, TLC

VARIABLES
    file,             \* data.json: [exists, habits]
    now,              \* Local::now(), in hours
    overflow_checks,  \* the build profile: TRUE = overflow checks on (debug)
    runs,             \* number of invocations so far
    last,             \* what the latest invocation was given and what it did
    streak            \* length of the current alternating finish/unfinish series

vars == <<file, now, overflow_checks, runs, last, streak>>

----------------------------------------------------------------------------
(* Bounds and inputs *)

MaxRuns == 3

MaxI32 == 2147483647
MinI32 == (-MaxI32) - 1
DAY_OFFSET == 2

HabitNames == {"water", "chores"}
ObjectiveNames == {"dishes", "trash"}
Progresses == {-1, 1, MaxI32}
PlotDays == {0, 7}
Instants == {1, 2, 25}

ObjectiveLists == {<<>>, <<"dishes">>, <<"dishes", "trash">>}

----------------------------------------------------------------------------
(* i32 arithmetic *)

Pow2(k) == IF k = 31 THEN MinI32 ELSE 2 ^ k

\* bit k of the two's complement representation of x
Bit(x, k) == IF k = 31 THEN x < 0 ELSE (x \div (2 ^ k)) % 2 = 1

add_overflows(a, b) ==
    \/ a >= 0 /\ b > 0 /\ a > MaxI32 - b
    \/ a < 0 /\ b < 0 /\ a < MinI32 - b

\* the sum clamped to the i32 range instead of wrapped
saturating_add(a, b) ==
    IF a >= 0 /\ b > 0 /\ a > MaxI32 - b THEN MaxI32
    ELSE IF a < 0 /\ b < 0 /\ a < MinI32 - b THEN MinI32
    ELSE a + b

wrapping_add(a, b) ==
    IF a >= 0 /\ b > 0 /\ a > MaxI32 - b
    THEN (a + MinI32) + (b + MinI32)
    ELSE IF a < 0 /\ b < 0 /\ a < MinI32 - b
    THEN (a - MinI32) + (b - MinI32)
    ELSE a + b

\* a + b on i32: panics on overflow when overflow checks are on, wraps otherwise
add_i32(a, b) ==
    IF add_overflows(a, b) /\ overflow_checks
    THEN [panic |-> TRUE, value |-> a]
    ELSE [panic |-> FALSE, value |-> wrapping_add(a, b)]

\* 1 << k on i32 with an i32 shift amount: a shift amount outside 0..31
\* panics when overflow checks are on and is masked to 5 bits otherwise
shl_one(k) ==
    IF k >= 0 /\ k < 32
    THEN [panic |-> FALSE, value |-> Pow2(k)]
    ELSE IF overflow_checks
    THEN [panic |-> TRUE, value |-> 0]
    ELSE [panic |-> FALSE, value |-> Pow2(k % 32)]

\* (a & b) != 0
bitand_nonzero(a, b) == \E k \in 0..31 : Bit(a, k) /\ Bit(b, k)

\* prog >> 1 (arithmetic shift)
shr_one(prog) == prog \div 2

----------------------------------------------------------------------------
(* Habit days *)

date_naive(t) == t \div 24

\* the calendar date of now, without the shift
today_unshifted == date_naive(now)

today == date_naive(now - DAY_OFFSET)

days_within_last(duration) ==
    LET start == date_naive((now - DAY_OFFSET) - 24 * duration)
    IN  IF start > today THEN <<>>
        ELSE [k \in 1..((today - start) + 1) |-> start + (k - 1)]

----------------------------------------------------------------------------
(* Habit *)

numerical == [tag |-> "Numerical", objectives |-> <<>>]

checklist(objectives) == [tag |-> "Checklist", objectives |-> objectives]

HabitTypes == {numerical} \cup {checklist(o) : o \in ObjectiveLists}

EmptyProgress == [d \in {} |-> 0]

new(name, habit_type) ==
    [progress |-> EmptyProgress, name |-> name, habit_type |-> habit_type]

\* progress.get(day).unwrap_or(&0)
get_or_zero(progress, day) ==
    IF day \in DOMAIN progress THEN progress[day] ELSE 0

\* progress.entry(day).or_insert(0) / or_default()
or_insert(progress, day) ==
    [d \in (DOMAIN progress) \cup {day} |-> get_or_zero(progress, d)]

add_progress(self, progress) ==
    LET p1 == or_insert(self.progress, today)
        sum == add_i32(p1[today], progress)
    IN  IF sum.panic
        THEN [panic |-> TRUE, habit |-> [self EXCEPT !.progress = p1]]
        ELSE [panic |-> FALSE,
              habit |-> [self EXCEPT !.progress = [p1 EXCEPT ![today] = sum.value]]]

\* the search loop with its end test one place early: an objective that is
\* not in the list comes out as the last index
objective_index_short(objectives, objective, i) ==
    LET hits == {k \in (i + 1)..Len(objectives) : objectives[k] = objective}
    IN  IF hits # {} THEN (CHOOSE k \in hits : \A m \in hits : k <= m) - 1
        ELSE IF Len(objectives) = 0 THEN 0
        ELSE Len(objectives) - 1

\* the search loop of mark_objective: the 0-based index of the first
\* objective equal to the one asked for, or the list's length when none is
RECURSIVE objective_index(_, _, _)
objective_index(objectives, objective, i) ==
    IF i = Len(objectives) THEN i
    ELSE IF objectives[i + 1] = objective THEN i
    ELSE objective_index(objectives, objective, i + 1)

\* the amount handed to add_progress: 1 << i as i32 * (if finished {1} else {-1}),
\* in which the product is the shift amount
mark_amount(i, finished) == shl_one(i * (IF finished THEN 1 ELSE -1))

\* the check without its negation
already_marked_inverted(entry, flag_to_set, finished) ==
    bitand_nonzero(entry, flag_to_set) # finished

\* !((entry & flag_to_set != 0) ^ finished)
already_marked(entry, flag_to_set, finished) ==
    ~(bitand_nonzero(entry, flag_to_set) # finished)

mark_objective(self, objective, finished) ==
    IF self.habit_type.tag # "Checklist"
    THEN [result |-> "not_checklist", habit |-> self]
    ELSE
    LET objectives == self.habit_type.objectives
        i == objective_index(objectives, objective, 0)
    IN  IF i = Len(objectives)
        THEN [result |-> "objective_not_found", habit |-> self]
        ELSE
        LET flag_to_set == shl_one(i)
            p1 == or_insert(self.progress, today)
            h1 == [self EXCEPT !.progress = p1]
        IN  IF flag_to_set.panic
            THEN [result |-> "panic", habit |-> self]
            ELSE IF already_marked(p1[today], flag_to_set.value, finished)
            THEN [result |-> "already_marked", habit |-> h1]
            ELSE
            LET amount == mark_amount(i, finished)
            IN  IF amount.panic
                THEN [result |-> "panic", habit |-> h1]
                ELSE
                LET added == add_progress(h1, amount.value)
                IN  IF added.panic
                    THEN [result |-> "panic", habit |-> added.habit]
                    ELSE [result |-> "ok", habit |-> added.habit]

\* the bit loop of display over one day's value: bit i of a positive value
\* counts for objective i; an index past the objectives is out of bounds
RECURSIVE scan_bits(_, _, _)
scan_bits(prog, i, times_completed) ==
    IF prog > 0
    THEN IF prog % 2 = 1
         THEN IF i >= Len(times_completed)
              THEN [panic |-> TRUE, counts |-> times_completed]
              ELSE scan_bits(shr_one(prog), i + 1,
                             [times_completed EXCEPT ![i + 1] = @ + 1])
         ELSE scan_bits(shr_one(prog), i + 1, times_completed)
    ELSE [panic |-> FALSE, counts |-> times_completed]

\* for date in self.progress.keys(): the counts do not depend on the order
\* of the keys, so the days are taken in ascending order
RECURSIVE scan_days(_, _, _)
scan_days(progress, dates, times_completed) ==
    IF dates = {} THEN [panic |-> FALSE, counts |-> times_completed]
    ELSE LET date == CHOOSE d \in dates : \A e \in dates : d <= e
             r == scan_bits(progress[date], 0, times_completed)
         IN  IF r.panic THEN r
             ELSE scan_days(progress, dates \ {date}, r.counts)

RECURSIVE sort(_)
sort(dates) ==
    IF dates = {} THEN <<>>
    ELSE LET date == CHOOSE d \in dates : \A e \in dates : d <= e
         IN  <<date>> \o sort(dates \ {date})

\* the text of a habit, as its name and the <<label, number>> of each line
display(self) ==
    IF self.habit_type.tag = "Checklist"
    THEN LET objectives == self.habit_type.objectives
             r == scan_days(self.progress, DOMAIN self.progress,
                            [k \in 1..Len(objectives) |-> 0])
         IN  [panic |-> r.panic, name |-> self.name,
              lines |-> IF r.panic THEN <<>>
                        ELSE [k \in 1..Len(objectives) |->
                                 <<objectives[k], r.counts[k]>>]]
    ELSE LET dates == sort(DOMAIN self.progress)
         IN  [panic |-> FALSE, name |-> self.name,
              lines |-> [k \in 1..Len(dates) |->
                            <<dates[k], self.progress[dates[k]]>>]]

\* the bit loop of plotting_data over one day's value
RECURSIVE count_bits(_)
count_bits(prog) ==
    IF prog > 0
    THEN (IF prog % 2 = 1 THEN 1 ELSE 0) + count_bits(shr_one(prog))
    ELSE 0

plotting_data(self, in_last) ==
    LET days == days_within_last(in_last)
    IN  [k \in 1..Len(days) |->
            <<(1 - Len(days)) + (k - 1),
              IF self.habit_type.tag = "Checklist"
              THEN count_bits(get_or_zero(self.progress, days[k]))
              ELSE get_or_zero(self.progress, days[k])>>]

----------------------------------------------------------------------------
(* main *)

\* habits.iter().position(|h| h.name() == name); 0 stands for None
position(habits, name) ==
    LET hits == {k \in 1..Len(habits) : habits[k].name = name}
    IN  IF hits = {} THEN 0 ELSE CHOOSE k \in hits : \A m \in hits : k <= m

\* the last habit of that name instead of the first
filter_last(habits, name) ==
    LET hits == {k \in 1..Len(habits) : habits[k].name = name}
    IN  IF hits = {} THEN 0 ELSE CHOOSE k \in hits : \A m \in hits : k >= m

\* habits.iter().enumerate().filter(|(_, h)| h.name() == name).next()
filter_next(habits, name) ==
    LET hits == {k \in 1..Len(habits) : habits[k].name = name}
    IN  IF hits = {} THEN 0 ELSE CHOOSE k \in hits : \A m \in hits : k <= m

Outcome(status, error, habits, out) ==
    [status |-> status, error |-> error, habits |-> habits, out |-> out]

create(habits, name, habit_type) ==
    Outcome("ok", "", Append(habits, new(name, habit_type)), <<>>)

add(habits, name, progress) ==
    LET i == filter_next(habits, name)
    IN  IF i = 0 THEN Outcome("error", "habit_not_found", habits, <<>>)
        ELSE LET r == add_progress(habits[i], progress)
             IN  IF r.panic
                 THEN Outcome("panic", "overflow", [habits EXCEPT ![i] = r.habit], <<>>)
                 ELSE Outcome("ok", "", [habits EXCEPT ![i] = r.habit], <<>>)

main_mark_objective(habits, name, objective, finished) ==
    LET i == position(habits, name)
    IN  IF i = 0 THEN Outcome("error", "habit_not_found", habits, <<>>)
        ELSE LET r == mark_objective(habits[i], objective, finished)
                 mem == [habits EXCEPT ![i] = r.habit]
             IN  IF r.result = "ok" THEN Outcome("ok", "", mem, <<>>)
                 ELSE IF r.result = "panic" THEN Outcome("panic", "overflow", mem, <<>>)
                 ELSE Outcome("error", r.result, mem, <<>>)

\* io_ok: whether graphs/<name>.png could be written
plot(habits, name, duration, io_ok) ==
    LET i == position(habits, name)
    IN  IF i = 0 THEN Outcome("error", "habit_not_found", habits, <<>>)
        ELSE LET data == plotting_data(habits[i], duration)
             IN  IF io_ok THEN Outcome("ok", "", habits, data)
                 ELSE Outcome("error", "io", habits, data)

\* the displays printed before the first one that fails
RECURSIVE list_from(_, _, _)
list_from(habits, k, printed) ==
    IF k > Len(habits) THEN Outcome("ok", "", habits, printed)
    ELSE LET d == display(habits[k])
         IN  IF d.panic THEN Outcome("panic", "index_out_of_bounds", habits, printed)
             ELSE list_from(habits, k + 1, Append(printed, d))

list(habits) == list_from(habits, 1, <<>>)

\* data.json as main finds it: absent reads as the empty list ...
Loaded == IF file.exists THEN file.habits ELSE <<>>

\* ... after having been created holding the empty list
Opened == [exists |-> TRUE, habits |-> Loaded]

\* the file written from memory on every path
persist_always(status, habits) == [exists |-> TRUE, habits |-> habits]

\* the file an invocation leaves: written from memory on the success path only
persist(status, habits) ==
    IF status = "ok" THEN [exists |-> TRUE, habits |-> habits] ELSE Opened

NoRun ==
    [cmd |-> "none", name |-> "", objective |-> "", finished |-> FALSE,
     progress |-> 0, status |-> "none", error |-> "",
     before |-> [exists |-> FALSE, habits |-> <<>>], mem |-> <<>>,
     out |-> <<>>, at |-> 0]

Invocation(cmd, name, objective, finished, progress, r) ==
    /\ runs < MaxRuns
    /\ runs' = runs + 1
    /\ file' = persist(r.status, r.habits)
    /\ last' = [cmd |-> cmd, name |-> name, objective |-> objective,
                finished |-> finished, progress |-> progress,
                status |-> r.status, error |-> r.error,
                before |-> file, mem |-> r.habits, out |-> r.out, at |-> now]
    /\ UNCHANGED <<now, overflow_checks>>

UsageErrors ==
    {"create_no_name", "create_bad_type", "add_no_name", "add_bad_number",
     "mark_no_name", "mark_no_objective", "plot_no_name", "plot_bad_days",
     "unknown_command"}

\* the last finish/unfinish call continues an alternating series on the
\* same habit, objective and habit day
Continues(name, objective, finished) ==
    /\ streak > 0
    /\ last.cmd = "mark"
    /\ last.name = name
    /\ last.objective = objective
    /\ last.finished # finished
    /\ last.at = now

\* a finish call that starts an alternating series: the objective is in the
\* list of the checklist habit and its bit is clear in today's progress
Starts(name, objective, finished) ==
    /\ finished
    /\ position(Loaded, name) # 0
    /\ LET h == Loaded[position(Loaded, name)]
           i == objective_index(h.habit_type.objectives, objective, 0)
       IN  /\ h.habit_type.tag = "Checklist"
           /\ i < Len(h.habit_type.objectives)
           /\ ~Bit(get_or_zero(h.progress, today), i)

Help ==
    /\ Invocation("help", "", "", FALSE, 0, Outcome("ok", "", Loaded, <<>>))
    /\ streak' = 0

List ==
    /\ Invocation("list", "", "", FALSE, 0, list(Loaded))
    /\ streak' = 0

Create ==
    \E name \in HabitNames, habit_type \in HabitTypes :
        /\ Invocation("create", name, "", FALSE, 0, create(Loaded, name, habit_type))
        /\ streak' = 0

Add ==
    \E name \in HabitNames, progress \in Progresses :
        /\ Invocation("add", name, "", FALSE, progress, add(Loaded, name, progress))
        /\ streak' = 0

MarkObjective(finished) ==
    \E name \in HabitNames, objective \in ObjectiveNames :
        /\ Invocation("mark", name, objective, finished, 0,
                      main_mark_objective(Loaded, name, objective, finished))
        /\ streak' = IF Continues(name, objective, finished) THEN streak + 1
                     ELSE IF Starts(name, objective, finished) THEN 1
                     ELSE 0

Finish == MarkObjective(TRUE)

Unfinish == MarkObjective(FALSE)

Plot ==
    \E name \in HabitNames, days \in PlotDays, io_ok \in BOOLEAN :
        /\ Invocation("plot", name, "", FALSE, days, plot(Loaded, name, days, io_ok))
        /\ streak' = 0

UsageError ==
    \E error \in UsageErrors :
        /\ Invocation("usage", "", "", FALSE, 0, Outcome("error", error, Loaded, <<>>))
        /\ streak' = 0

Tick ==
    /\ \E t \in Instants : t > now /\ now' = t
    /\ streak' = 0
    /\ UNCHANGED <<file, overflow_checks, runs, last>>

Init ==
    /\ file = [exists |-> FALSE, habits |-> <<>>]
    /\ now = 1
    /\ overflow_checks \in BOOLEAN
    /\ runs = 0
    /\ last = NoRun
    /\ streak = 0

Next ==
    \/ Help
    \/ List
    \/ Create
    \/ Add
    \/ Finish
    \/ Unfinish
    \/ Plot
    \/ UsageError
    \/ Tick

Spec == Init /\ [][Next]_vars

----------------------------------------------------------------------------
(* What the properties are stated with *)

\* the habit day of an instant, by the clock: before 02:00 it is still the
\* previous calendar date
HabitDay(t) ==
    LET date == t \div 24
        hour == t % 24
    IN  IF hour < 2 THEN date - 1 ELSE date

\* the habits the latest invocation found in the store
BeforeHabits == IF last.before.exists THEN last.before.habits ELSE <<>>

Named(habits, name) == {k \in 1..Len(habits) : habits[k].name = name}

\* the first habit of that name in store order
FirstNamed(habits, name) ==
    CHOOSE k \in Named(habits, name) : \A m \in Named(habits, name) : k <= m

\* habit j stands behind an earlier habit of the same name
Shadowed(habits, j) == \E i \in 1..(j - 1) : habits[i].name = habits[j].name

Contains(objectives, objective) ==
    \E k \in 1..Len(objectives) : objectives[k] = objective

\* the bit position of an objective: its first index in the list, from 0
BitOf(objectives, objective) ==
    (CHOOSE k \in 1..Len(objectives) :
        /\ objectives[k] = objective
        /\ \A m \in 1..(k - 1) : objectives[m] # objective) - 1

ValueOn(habit, day) ==
    IF day \in DOMAIN habit.progress THEN habit.progress[day] ELSE 0

Popcount(x) == Cardinality({k \in 0..31 : Bit(x, k)})

\* a + b modulo 2^32 in the signed range, computed on 16-bit halves
SumLo(a, b) == (a % 65536) + (b % 65536)
SumHi(a, b) == (a \div 65536) + (b \div 65536) + (SumLo(a, b) \div 65536)
SumFits(a, b) == SumHi(a, b) >= -32768 /\ SumHi(a, b) <= 32767
SumMod32(a, b) ==
    (((SumHi(a, b) + 32768) % 65536) - 32768) * 65536 + (SumLo(a, b) % 65536)

\* the latest invocation was finish/unfinish of an objective that is in the
\* list of the checklist habit the name resolves to
MarkedListed ==
    /\ last.cmd = "mark"
    /\ Named(BeforeHabits, last.name) # {}
    /\ LET h == BeforeHabits[FirstNamed(BeforeHabits, last.name)]
       IN  /\ h.habit_type.tag = "Checklist"
           /\ Contains(h.habit_type.objectives, last.objective)

MarkedIndex == FirstNamed(BeforeHabits, last.name)
MarkedBit ==
    BitOf(BeforeHabits[MarkedIndex].habit_type.objectives, last.objective)
MarkedOld == ValueOn(BeforeHabits[MarkedIndex], HabitDay(last.at))
MarkedMem == ValueOn(last.mem[MarkedIndex], HabitDay(last.at))
MarkedNew == ValueOn(file.habits[MarkedIndex], HabitDay(last.at))

----------------------------------------------------------------------------
(* Properties *)

\* C1: within an alternating series finish, unfinish, finish, ... of one
\* objective of a checklist habit on one habit day, started with its bit
\* clear, every call succeeds and leaves bit i of today's progress set
\* exactly when the call marked the objective finished.
C1_AlternatingMarksSucceed ==
    streak > 0 =>
        /\ last.status = "ok"
        /\ Bit(MarkedNew, MarkedBit) = last.finished

\* C2: a successful mark_objective on the objective of index i changes
\* today's progress by exactly the flag 1 << i: bit i is flipped and every
\* other bit is unchanged.
C2_MarkFlipsOnlyBitI ==
    (MarkedListed /\ last.status = "ok") =>
        \A k \in 0..31 :
            Bit(MarkedNew, k) =
                (IF k = MarkedBit THEN ~Bit(MarkedOld, k) ELSE Bit(MarkedOld, k))

\* C3: mark_objective of a listed objective whose bit already equals the
\* requested state fails with the "already marked" error, in both
\* directions, and leaves today's progress value unchanged.
C3_RedundantMarkRejected ==
    (MarkedListed /\ Bit(MarkedOld, MarkedBit) = last.finished) =>
        /\ last.status = "error"
        /\ last.error = "already_marked"
        /\ MarkedMem = MarkedOld
        /\ MarkedNew = MarkedOld

C3_Witness ==
    /\ MarkedListed
    /\ last.finished
    /\ Bit(MarkedOld, MarkedBit)
    /\ last.error = "already_marked"

\* the latest invocation was add on a habit that exists
AddedFound == last.cmd = "add" /\ Named(BeforeHabits, last.name) # {}
AddedIndex == FirstNamed(BeforeHabits, last.name)
AddedOld == ValueOn(BeforeHabits[AddedIndex], HabitDay(last.at))
AddedNew == ValueOn(file.habits[AddedIndex], HabitDay(last.at))

\* C4 as stated: every add_progress succeeds and the value stored for the
\* day is the sum of the deltas reduced modulo 2^32 into the i32 range
\* (overflow wraps rather than failing).
C4_AddAlwaysWraps ==
    AddedFound =>
        /\ last.status = "ok"
        /\ AddedNew = SumMod32(AddedOld, last.progress)

\* C4 as amended: the value stored for the day is the sum of the deltas as
\* long as the sum stays in the i32 range; when a sum leaves the range, a
\* build without overflow checks stores it reduced modulo 2^32 and a build
\* with overflow checks panics, leaving the stored habits as they were.
C4_AddSums ==
    AddedFound =>
        IF SumFits(AddedOld, last.progress)
        THEN /\ last.status = "ok"
             /\ AddedNew = AddedOld + last.progress
        ELSE IF overflow_checks
        THEN /\ last.status = "panic"
             /\ file.habits = BeforeHabits
        ELSE /\ last.status = "ok"
             /\ AddedNew = SumMod32(AddedOld, last.progress)

C4_Witness ==
    /\ AddedFound
    /\ ~overflow_checks
    /\ AddedOld = MaxI32
    /\ last.progress = 1
    /\ AddedNew = MinI32

\* C5: display of a checklist habit completes and reports, for the
\* objective at index i, the number of recorded days whose progress has
\* bit i set.
C5_DisplayCountsBits ==
    last.cmd = "list" =>
        /\ last.status = "ok"
        /\ \A k \in 1..Len(BeforeHabits) :
              LET h == BeforeHabits[k]
              IN  h.habit_type.tag = "Checklist" =>
                     \A j \in 1..Len(h.habit_type.objectives) :
                        last.out[k].lines[j] =
                            <<h.habit_type.objectives[j],
                              Cardinality({d \in DOMAIN h.progress :
                                              Bit(h.progress[d], j - 1)})>>

\* C6: for a checklist habit, the value plotting_data returns for a day of
\* the window is the popcount of that day's stored progress, negative
\* values included, and 0 for a day without entry.
C6_PlotIsPopcount ==
    (last.cmd = "plot" /\ Named(BeforeHabits, last.name) # {}) =>
        LET h == BeforeHabits[FirstNamed(BeforeHabits, last.name)]
        IN  h.habit_type.tag = "Checklist" =>
               \A k \in 1..Len(last.out) :
                  last.out[k][2] =
                      Popcount(ValueOn(h, HabitDay(last.at) + last.out[k][1]))

\* C7 as stated: an invocation that ends in an error leaves the store
\* exactly as it was, an absent file included.
C7_FailureLeavesFile ==
    last.status = "error" => file = last.before

\* C7 as amended: an invocation that ends in an error (or a panic) leaves
\* the stored list of habits as it was; a file that was absent has by then
\* been created holding the empty list.
C7_FailureKeepsHabits ==
    last.status \in {"error", "panic"} =>
        /\ file.exists
        /\ file.habits = BeforeHabits

C7_Witness ==
    /\ last.status = "error"
    /\ last.error = "already_marked"
    /\ last.mem # BeforeHabits
    /\ file.habits = BeforeHabits

\* C8: mark_objective with an objective that is not in the habit's list
\* fails with the not-found error and leaves the progress map as it was:
\* no value changed, no entry added.
C8_UnknownObjectiveRejected ==
    (/\ last.cmd = "mark"
     /\ Named(BeforeHabits, last.name) # {}
     /\ BeforeHabits[MarkedIndex].habit_type.tag = "Checklist"
     /\ ~Contains(BeforeHabits[MarkedIndex].habit_type.objectives, last.objective)) =>
        /\ last.status = "error"
        /\ last.error = "objective_not_found"
        /\ last.mem = BeforeHabits
        /\ file.habits = BeforeHabits

C8_Witness ==
    /\ last.cmd = "mark"
    /\ last.error = "objective_not_found"
    /\ ~last.finished
    /\ BeforeHabits[MarkedIndex].habit_type.objectives # <<>>

\* C9: create with a name already in the store succeeds and appends the
\* new habit after the existing ones; every later command resolves the
\* name to the first habit bearing it, so a habit standing behind an
\* earlier one of the same name is never changed.
C9_DuplicatesShadowed ==
    /\ last.cmd = "create" =>
          /\ last.status = "ok"
          /\ Len(file.habits) = Len(BeforeHabits) + 1
          /\ SubSeq(file.habits, 1, Len(BeforeHabits)) = BeforeHabits
          /\ file.habits[Len(file.habits)].name = last.name
          /\ DOMAIN file.habits[Len(file.habits)].progress = {}
    /\ last.cmd \in {"add", "mark", "plot"} =>
          \A j \in 1..Len(BeforeHabits) :
             (Shadowed(BeforeHabits, j) \/ BeforeHabits[j].name # last.name) =>
                 /\ file.habits[j] = BeforeHabits[j]
                 /\ last.mem[j] = BeforeHabits[j]

C9_Witness ==
    /\ last.cmd = "add"
    /\ last.status = "ok"
    /\ \E j \in 1..Len(BeforeHabits) :
          /\ Shadowed(BeforeHabits, j)
          /\ BeforeHabits[j].name = last.name
          /\ file.habits[j] = BeforeHabits[j]
    /\ file.habits # BeforeHabits

\* habit b is habit a except, possibly, for the entry of one day
SameButDay(a, b, day) ==
    /\ b.name = a.name
    /\ b.habit_type = a.habit_type
    /\ (DOMAIN b.progress) \ {day} = (DOMAIN a.progress) \ {day}
    /\ \A d \in (DOMAIN a.progress) \ {day} : b.progress[d] = a.progress[d]

\* C10: every operation leaves the name, type and objectives of every
\* habit and the entries of every day other than the current habit day as
\* they were, and a progress write lands on the entry of the current habit
\* day: the date of local time shifted back 2 hours.
C10_WritesOnlyHabitDay ==
    last.status # "none" =>
        /\ \A j \in 1..Len(BeforeHabits) :
              /\ SameButDay(BeforeHabits[j], last.mem[j], HabitDay(last.at))
              /\ SameButDay(BeforeHabits[j], file.habits[j], HabitDay(last.at))
        /\ (last.cmd \in {"add", "mark"} /\ last.status = "ok") =>
              HabitDay(last.at) \in
                  DOMAIN file.habits[FirstNamed(BeforeHabits, last.name)].progress

C10_Witness ==
    /\ last.cmd = "add"
    /\ last.status = "ok"
    /\ last.at % 24 < 2
    /\ LET h == file.habits[FirstNamed(BeforeHabits, last.name)]
       IN  /\ DOMAIN h.progress = {(last.at \div 24) - 2, (last.at \div 24) - 1}
           /\ h.progress[(last.at \div 24) - 1] = last.progress

====
